---- MODULE Spec2Model ----
(***************************************************************************)
(* Model of reset_camera_clip_planes.py: the camera resolver, the          *)
(* clip-plane setter, the MayaResetCameraClipPlanes actions and the Qt     *)
(* slots of ResetCameraClipPlanesUI that drive them.                       *)
(*                                                                         *)
(* Floats are integers counting tenths (1.0 is 10, 50000.0 is 500000).     *)
(***************************************************************************)
EXTENDS Integers, Sequences, FiniteSets, TLC

VARIABLES
    scene,            \* host scene graph: [dag, children]
    selection,        \* host selection list, pm_general.ls(sl=True)
    nearClip,         \* camera -> nearClipPlane
    farClip,          \* camera -> farClipPlane
    locked,           \* host: locked attributes, <<camera, attribute>>
    manip,            \* camera -> renderManip camera component flags
    mode,             \* MayaResetCameraClipPlanes.mode
    clip_values,      \* MayaResetCameraClipPlanes.clip_values
    checkedId,        \* _camera_context_options_grp.checkedId()
    clip_edit_near,   \* _clip_edit_near.text()
    clip_edit_far,    \* _clip_edit_far.text()
    stack,            \* call stack of the Qt slots being run
    inViewMessages,   \* mc.inViewMessage calls of the slot being run
    before,           \* host state when the slot being run was entered
    writes,           \* clip attributes the slot being run has set so far
    nodes,            \* resolve_cameras: the argument
    node_i,           \* resolve_cameras: position of the for loop
    yielded           \* resolve_cameras: what the generator has yielded

vars == <<scene, selection, nearClip, farClip, locked, manip, mode, clip_values,
          checkedId, clip_edit_near, clip_edit_far, stack, inViewMessages,
          before, writes, nodes, node_i, yielded>>

toolVars == <<selection, nearClip, farClip, manip, mode, clip_values,
              checkedId, clip_edit_near, clip_edit_far, stack, inViewMessages,
              before, writes>>

----------------------------------------------------------------------------
(* Bounds *)

MaxSel == 2        \* longest host selection
MaxLen == 3        \* longest argument of resolve_cameras

----------------------------------------------------------------------------
(* The host scene *)

Node == {"t2", "t1", "c1", "c2", "m1"}
Cameras == {"c1", "c2"}

\* mc.nodeType(name)
nodeType(n) ==
    CASE n \in {"t1", "t2"} -> "transform"
      [] n \in Cameras -> "camera"
      [] OTHER -> "mesh"

\* t2 groups t1; t1 carries two camera shapes around a mesh shape.
SceneWithCameras ==
    [dag |-> <<"t2", "t1", "c1", "m1", "c2">>,
     children |-> [n \in Node |->
        CASE n = "t2" -> <<"t1">>
          [] n = "t1" -> <<"c1", "m1", "c2">>
          [] OTHER -> <<>>]]

\* The same scene with child order reversed under t1.
SceneReversed ==
    [dag |-> <<"t2", "t1", "c2", "m1", "c1">>,
     children |-> [n \in Node |->
        CASE n = "t2" -> <<"t1">>
          [] n = "t1" -> <<"c2", "m1", "c1">>
          [] OTHER -> <<>>]]

\* t1 alone, with its three shapes.
SceneFlat ==
    [dag |-> <<"t1", "c1", "m1", "c2">>,
     children |-> [n \in Node |->
        IF n = "t1" THEN <<"c1", "m1", "c2">> ELSE <<>>]]

\* A scene that holds no camera.
SceneNoCameras ==
    [dag |-> <<"t2", "t1", "m1">>,
     children |-> [n \in Node |->
        CASE n = "t2" -> <<"t1">>
          [] n = "t1" -> <<"m1">>
          [] OTHER -> <<>>]]

Scenes == {SceneWithCameras, SceneReversed, SceneNoCameras}
ToolScenes == {SceneFlat, SceneNoCameras}

Range(s) == {s[k] : k \in 1..Len(s)}

\* Sequences over S of length at most n.
SeqUpTo(S, n) == UNION {[1..k -> S] : k \in 0..n}

----------------------------------------------------------------------------
(* Maya utility functions *)

is_node_of_type(node, node_type) == nodeType(node) = node_type

\* node.listRelatives(type="camera"): the direct children of that type.
listRelatives_camera(node) ==
    SelectSeq(scene.children[node], LAMBDA c : nodeType(c) = "camera")

\* pm_general.ls(cameras=True)
ls_cameras == SelectSeq(scene.dag, LAMBDA n : nodeType(n) = "camera")

----------------------------------------------------------------------------
(* resolve_cameras *)

\* Mutant: listRelatives() without type="camera".
resolve_cameras_body_any_child(node) ==
    IF is_node_of_type(node, "transform")
    THEN scene.children[node]
    ELSE IF is_node_of_type(node, "camera")
         THEN <<node>>
         ELSE <<>>

\* Mutant: else instead of elif, every node that is no transform is yielded.
resolve_cameras_body_else(node) ==
    IF is_node_of_type(node, "transform")
    THEN listRelatives_camera(node)
    ELSE <<node>>

\* Mutant: a camera already yielded is not yielded again.
resolve_cameras_body_unique(node) ==
    IF is_node_of_type(node, "transform")
    THEN SelectSeq(listRelatives_camera(node), LAMBDA c : c \notin Range(yielded))
    ELSE IF is_node_of_type(node, "camera") /\ node \notin Range(yielded)
         THEN <<node>>
         ELSE <<>>

\* The body of the for loop: what one node makes the generator yield.
resolve_cameras_body(node) ==
    IF is_node_of_type(node, "transform")
    THEN listRelatives_camera(node)
    ELSE IF is_node_of_type(node, "camera")
         THEN <<node>>
         ELSE <<>>

RECURSIVE resolve_cameras(_)
resolve_cameras(ns) ==
    IF ns = <<>> THEN <<>>
    ELSE resolve_cameras_body(Head(ns)) \o resolve_cameras(Tail(ns))

----------------------------------------------------------------------------
(* get_selected_cameras, get_all_cameras *)

\* What a call gives: the list it returns, or the exception it raises.
Returns(cams) == [raised |-> "", cameras |-> cams]
Raises(exc) == [raised |-> exc, cameras |-> <<>>]

\* err.message of the two named errors.
ErrMessage(exc) ==
    IF exc = "NothingSelectedError" THEN "Nothing Selected!"
    ELSE "No cameras could be resolved from selection!"

\* Mutant: one test and one error for both failures.
get_selected_cameras_confused ==
    LET sel == selection
        cameras == resolve_cameras(sel)
    IN IF sel = <<>> \/ cameras = <<>> THEN Raises("NothingSelectedError")
       ELSE Returns(cameras)

get_selected_cameras ==
    LET sel == selection
        cameras == resolve_cameras(sel)
    IN IF sel = <<>> THEN Raises("NothingSelectedError")
       ELSE IF cameras = <<>> THEN Raises("FailedToResolveFromSelectionError")
       ELSE Returns(cameras)

get_all_cameras == Returns(ls_cameras)

----------------------------------------------------------------------------
(* MayaResetCameraClipPlanes and the widgets *)

DEFAULT_CLIP_PLANE_NEAR == 10
DEFAULT_CLIP_PLANE_FAR == 500000

ClipPair(near, far) == [near |-> near, far |-> far]

\* action_map.keys(), in insertion order.
action_map_keys == <<"selected", "all">>

\* Mutant: the two entries of action_map exchanged.
action_map_get_swapped(m) ==
    IF m = "selected" THEN get_all_cameras ELSE get_selected_cameras

\* action_map.get(mode)()
action_map_get(m) ==
    IF m = "selected" THEN get_selected_cameras ELSE get_all_cameras

\* Texts the user leaves in the two line edits, and float(text) and
\* str(value) on them.
ClipTexts == {<<"1.0", "50000.0">>, <<"0.5", "100.0">>}

Float(text) ==
    CASE text = "1.0" -> 10
      [] text = "0.5" -> 5
      [] text = "50000.0" -> 500000
      [] text = "100.0" -> 1000

Str(value) ==
    CASE value = 10 -> "1.0"
      [] value = 5 -> "0.5"
      [] value = 500000 -> "50000.0"
      [] value = 1000 -> "100.0"

\* mc.renderManip(cam, e=True, camera=manipulators_state):
\* <<cycling index, center of interest, pivot, clipping planes, unused>>
manipulators_state(enable) ==
    IF enable THEN <<FALSE, FALSE, FALSE, TRUE, FALSE>>
    ELSE <<FALSE, FALSE, FALSE, FALSE, FALSE>>

\* The host's state of a camera nobody has touched yet.
HostCamera ==
    [nearClip |-> 1, farClip |-> 100000,
     manip |-> <<FALSE, FALSE, FALSE, FALSE, FALSE>>]

CamerasOf(sc) == {n \in Range(sc.dag) : nodeType(n) = "camera"}

ClipAttrs == {"nearClip", "farClip"}

\* The host locks at most one clip attribute.
LockChoices(sc) == {{}} \cup {{<<c, a>>} : c \in CamerasOf(sc), a \in ClipAttrs}

Snapshot == [nearClip |-> nearClip, farClip |-> farClip, manip |-> manip]

----------------------------------------------------------------------------
(* The call stack *)

\* slot: the entry point; pc: the statement about to run, or how the slot
\* ended; at: the statement that raised; exc: the exception that escaped.
Frame(slot, pc, cameras, near, far, enable, exc) ==
    [slot |-> slot, pc |-> pc, at |-> "", cameras |-> cameras, i |-> 1,
     near |-> near, far |-> far, enable |-> enable, exc |-> exc]

Top == stack[Len(stack)]
Running == stack # <<>>
ReplaceTop(f) == [stack EXCEPT ![Len(stack)] = f]

\* A slot ends by returning or by letting an exception escape.
Ended(f) == f.pc \in {"returned", "raised"}

\* Mutant: a slot that lets the event loop run, so signals arrive inside it.
CanDispatch_reentrant == TRUE

\* The Qt event loop delivers a signal to a slot only between slots: the
\* connections are direct and no slot runs an event loop of its own.
CanDispatch == stack = <<>>

Enter(f) ==
    /\ CanDispatch
    /\ stack' = Append(stack, f)
    /\ before' = Snapshot
    /\ writes' = <<>>

resolveVars == <<scene, nodes, node_i, yielded>>

----------------------------------------------------------------------------
(* The user, between slots *)

\* The user selects nodes of the scene in the host.
Select(sel) ==
    /\ CanDispatch
    /\ sel # selection
    /\ selection' = sel
    /\ UNCHANGED <<nearClip, farClip, locked, manip, mode, clip_values,
                   checkedId, clip_edit_near, clip_edit_far, stack,
                   inViewMessages, before, writes, resolveVars>>

\* The user checks the other radio button of the camera context.
CheckRadio(id) ==
    /\ CanDispatch
    /\ id # checkedId
    /\ checkedId' = id
    /\ UNCHANGED <<selection, nearClip, farClip, locked, manip, mode,
                   clip_values, clip_edit_near, clip_edit_far, stack,
                   inViewMessages, before, writes, resolveVars>>

\* The user types into the two line edits.
EditClip(near_text, far_text) ==
    /\ CanDispatch
    /\ <<near_text, far_text>> # <<clip_edit_near, clip_edit_far>>
    /\ clip_edit_near' = near_text
    /\ clip_edit_far' = far_text
    /\ UNCHANGED <<selection, nearClip, farClip, locked, manip, mode,
                   clip_values, checkedId, stack, inViewMessages, before,
                   writes, resolveVars>>

----------------------------------------------------------------------------
(* MayaResetCameraClipPlanes.reset_cameras and set_cameras_clip_plane *)

InViewMsg(level, text) == [level |-> level, text |-> text]

\* Mutant: after a named error the method goes on with every camera.
reset_cameras_frame_fallthrough(slot, m, cv) ==
    LET got == action_map_get(m)
    IN IF got.raised # ""
       THEN Frame(slot, "setNearClipPlane", ls_cameras, cv.near, cv.far, FALSE, "")
       ELSE Frame(slot, "setNearClipPlane", got.cameras, cv.near, cv.far, FALSE, "")

\* reset_cameras up to the call of set_cameras_clip_plane: the two named
\* errors are caught and end the method, a list goes on to the setter.
reset_cameras_frame(slot, m, cv) ==
    LET got == action_map_get(m)
    IN IF got.raised # ""
       THEN Frame(slot, "returned", <<>>, cv.near, cv.far, FALSE, "")
       ELSE Frame(slot, "setNearClipPlane", got.cameras, cv.near, cv.far, FALSE, "")

\* _in_view_msg_error(msg) of the two except clauses.
reset_cameras_msgs(m) ==
    LET got == action_map_get(m)
    IN IF got.raised # ""
       THEN <<InViewMsg("error", ErrMessage(got.raised))>>
       ELSE <<>>

\* ResetCameraClipPlanesUI._reset_cameras_clip_planes, the Apply button.
_reset_cameras_clip_planes ==
    LET m == action_map_keys[checkedId + 1]
        cv == ClipPair(Float(clip_edit_near), Float(clip_edit_far))
    IN /\ Enter(reset_cameras_frame("_reset_cameras_clip_planes", m, cv))
       /\ mode' = m
       /\ clip_values' = {cv}
       /\ inViewMessages' = reset_cameras_msgs(m)
       /\ UNCHANGED <<selection, nearClip, farClip, locked, manip, checkedId,
                      clip_edit_near, clip_edit_far, resolveVars>>

\* The frame after a host setter raised: nothing catches it.
RaisedAt(f, statement) ==
    [f EXCEPT !.pc = "raised", !.at = statement, !.exc = "RuntimeError"]

\* Mutant: the near plane is set on every camera of the scene.
setNearClipPlane_every_camera ==
    /\ Running
    /\ Top.pc = "setNearClipPlane"
    /\ Top.i <= Len(Top.cameras)
    /\ LET cam == Top.cameras[Top.i]
       IN IF <<cam, "nearClip">> \in locked
          THEN /\ stack' = ReplaceTop(RaisedAt(Top, "setNearClipPlane"))
               /\ UNCHANGED <<nearClip, writes>>
          ELSE /\ nearClip' = [c \in DOMAIN nearClip |-> Top.near]
               /\ writes' = Append(writes, <<cam, "nearClip", Top.near>>)
               /\ stack' = ReplaceTop([Top EXCEPT !.pc = "setFarClipPlane"])
    /\ UNCHANGED <<selection, farClip, locked, manip, mode, clip_values,
                   checkedId, clip_edit_near, clip_edit_far, inViewMessages,
                   before, resolveVars>>

\* cam.setNearClipPlane(near)
setNearClipPlane ==
    /\ Running
    /\ Top.pc = "setNearClipPlane"
    /\ Top.i <= Len(Top.cameras)
    /\ LET cam == Top.cameras[Top.i]
       IN IF <<cam, "nearClip">> \in locked
          THEN /\ stack' = ReplaceTop(RaisedAt(Top, "setNearClipPlane"))
               /\ UNCHANGED <<nearClip, writes>>
          ELSE /\ nearClip' = [nearClip EXCEPT ![cam] = Top.near]
               /\ writes' = Append(writes, <<cam, "nearClip", Top.near>>)
               /\ stack' = ReplaceTop([Top EXCEPT !.pc = "setFarClipPlane"])
    /\ UNCHANGED <<selection, farClip, locked, manip, mode, clip_values,
                   checkedId, clip_edit_near, clip_edit_far, inViewMessages,
                   before, resolveVars>>

\* Mutant: a failed far write puts the camera's near plane back.
setFarClipPlane_rollback ==
    /\ Running
    /\ Top.pc = "setFarClipPlane"
    /\ LET cam == Top.cameras[Top.i]
       IN IF <<cam, "farClip">> \in locked
          THEN /\ stack' = ReplaceTop(RaisedAt(Top, "setFarClipPlane"))
               /\ nearClip' = [nearClip EXCEPT ![cam] = before.nearClip[cam]]
               /\ UNCHANGED <<farClip, writes>>
          ELSE /\ farClip' = [farClip EXCEPT ![cam] = Top.far]
               /\ writes' = Append(writes, <<cam, "farClip", Top.far>>)
               /\ stack' = ReplaceTop([Top EXCEPT !.pc = "setNearClipPlane",
                                                  !.i = Top.i + 1])
               /\ UNCHANGED nearClip
    /\ UNCHANGED <<selection, locked, manip, mode, clip_values,
                   checkedId, clip_edit_near, clip_edit_far, inViewMessages,
                   before, resolveVars>>

\* Mutant: the far plane is set to the near value.
setFarClipPlane_near_value ==
    /\ Running
    /\ Top.pc = "setFarClipPlane"
    /\ LET cam == Top.cameras[Top.i]
       IN IF <<cam, "farClip">> \in locked
          THEN /\ stack' = ReplaceTop(RaisedAt(Top, "setFarClipPlane"))
               /\ UNCHANGED <<farClip, nearClip, writes>>
          ELSE /\ farClip' = [farClip EXCEPT ![cam] = Top.near]
               /\ writes' = Append(writes, <<cam, "farClip", Top.near>>)
               /\ stack' = ReplaceTop([Top EXCEPT !.pc = "setNearClipPlane",
                                                  !.i = Top.i + 1])
               /\ UNCHANGED nearClip
    /\ UNCHANGED <<selection, locked, manip, mode, clip_values,
                   checkedId, clip_edit_near, clip_edit_far, inViewMessages,
                   before, resolveVars>>

\* cam.setFarClipPlane(far), and on to the next camera.
setFarClipPlane ==
    /\ Running
    /\ Top.pc = "setFarClipPlane"
    /\ LET cam == Top.cameras[Top.i]
       IN IF <<cam, "farClip">> \in locked
          THEN /\ stack' = ReplaceTop(RaisedAt(Top, "setFarClipPlane"))
               /\ UNCHANGED <<farClip, nearClip, writes>>
          ELSE /\ farClip' = [farClip EXCEPT ![cam] = Top.far]
               /\ writes' = Append(writes, <<cam, "farClip", Top.far>>)
               /\ stack' = ReplaceTop([Top EXCEPT !.pc = "setNearClipPlane",
                                                  !.i = Top.i + 1])
               /\ UNCHANGED nearClip
    /\ UNCHANGED <<selection, locked, manip, mode, clip_values,
                   checkedId, clip_edit_near, clip_edit_far, inViewMessages,
                   before, resolveVars>>

\* set_cameras_clip_plane has returned: reset_cameras reports and returns.
reset_cameras_complete ==
    /\ Running
    /\ Top.slot = "_reset_cameras_clip_planes"
    /\ Top.pc = "setNearClipPlane"
    /\ Top.i > Len(Top.cameras)
    /\ stack' = ReplaceTop([Top EXCEPT !.pc = "returned"])
    /\ inViewMessages' = Append(inViewMessages, InViewMsg("info", "reset cameras complete "))
    /\ UNCHANGED <<selection, nearClip, farClip, locked, manip, mode,
                   clip_values, checkedId, clip_edit_near, clip_edit_far,
                   before, writes, resolveVars>>

----------------------------------------------------------------------------
(* The manipulator actions *)

\* Mutant: only the clipping-planes flag is set, the other four are kept.
RECURSIVE camera_manip_clipping_toggle_flag_only(_, _, _)
camera_manip_clipping_toggle_flag_only(m, cameras, enable) ==
    IF cameras = <<>> THEN m
    ELSE camera_manip_clipping_toggle_flag_only(
             [m EXCEPT ![Head(cameras)][4] = enable],
             Tail(cameras), enable)

\* camera_manip_clipping_toggle: the for loop over the cameras.
RECURSIVE camera_manip_clipping_toggle(_, _, _)
camera_manip_clipping_toggle(m, cameras, enable) ==
    IF cameras = <<>> THEN m
    ELSE camera_manip_clipping_toggle(
             [m EXCEPT ![Head(cameras)] = manipulators_state(enable)],
             Tail(cameras), enable)

\* A camera_manip_* static method: it catches no exception.
camera_manip(slot, got, enable) ==
    /\ IF got.raised # ""
       THEN /\ Enter(Frame(slot, "raised", <<>>, 0, 0, enable, got.raised))
            /\ UNCHANGED manip
       ELSE /\ Enter(Frame(slot, "returned", got.cameras, 0, 0, enable, ""))
            /\ manip' = camera_manip_clipping_toggle(manip, got.cameras, enable)
    /\ inViewMessages' = <<>>
    /\ UNCHANGED <<selection, nearClip, farClip, locked, mode,
                   clip_values, checkedId, clip_edit_near, clip_edit_far,
                   resolveVars>>

_camera_manip_show_selected ==
    camera_manip("_camera_manip_show_selected", get_selected_cameras, TRUE)

_camera_manip_hide_selected ==
    camera_manip("_camera_manip_hide_selected", get_selected_cameras, FALSE)

_camera_manip_show_all ==
    camera_manip("_camera_manip_show_all", get_all_cameras, TRUE)

_camera_manip_hide_all ==
    camera_manip("_camera_manip_hide_all", get_all_cameras, FALSE)

----------------------------------------------------------------------------
(* The remaining slot, and the return to the event loop *)

\* ResetCameraClipPlanesUI._reset_ui, the "Reset UI" menu action.
_reset_ui ==
    /\ Enter(Frame("_reset_ui", "returned", <<>>, 0, 0, FALSE, ""))
    /\ clip_edit_near' = Str(DEFAULT_CLIP_PLANE_NEAR)
    /\ clip_edit_far' = Str(DEFAULT_CLIP_PLANE_FAR)
    /\ inViewMessages' = <<>>
    /\ UNCHANGED <<selection, nearClip, farClip, locked, manip, mode,
                   clip_values, checkedId, resolveVars>>

\* The call on top of the stack has ended: control is back in its caller.
\* The transient messages fade.
Return ==
    /\ Running
    /\ Ended(Top)
    /\ stack' = SubSeq(stack, 1, Len(stack) - 1)
    /\ inViewMessages' = <<>>
    /\ before' = Snapshot
    /\ writes' = <<>>
    /\ UNCHANGED <<selection, nearClip, farClip, locked, manip, mode,
                   clip_values, checkedId, clip_edit_near, clip_edit_far,
                   resolveVars>>

----------------------------------------------------------------------------
(* The tool in the host *)

\* Host selections: scene nodes, each at most once.
Selections ==
    {s \in SeqUpTo(Range(scene.dag), MaxSel) :
        \A j, k \in 1..Len(s) : j # k => s[j] # s[k]}

\* MayaResetCameraClipPlanes() leaves mode and clip_values unset: the class
\* defines __int__, which object construction never calls.
InitTool(sc) ==
    /\ selection = <<>>
    /\ nearClip = [c \in CamerasOf(sc) |-> HostCamera.nearClip]
    /\ farClip = [c \in CamerasOf(sc) |-> HostCamera.farClip]
    /\ manip = [c \in CamerasOf(sc) |-> HostCamera.manip]
    /\ mode = "unset"
    /\ clip_values = {}
    /\ checkedId = 0
    /\ clip_edit_near = Str(DEFAULT_CLIP_PLANE_NEAR)
    /\ clip_edit_far = Str(DEFAULT_CLIP_PLANE_FAR)
    /\ stack = <<>>
    /\ inViewMessages = <<>>
    /\ before = [nearClip |-> [c \in CamerasOf(sc) |-> HostCamera.nearClip],
                 farClip |-> [c \in CamerasOf(sc) |-> HostCamera.farClip],
                 manip |-> [c \in CamerasOf(sc) |-> HostCamera.manip]]
    /\ writes = <<>>

Init ==
    \E sc \in ToolScenes :
        /\ scene = sc
        /\ locked \in LockChoices(sc)
        /\ InitTool(sc)
        /\ nodes = <<>>
        /\ node_i = 1
        /\ yielded = <<>>

Next ==
    \/ \E sel \in Selections : Select(sel)
    \/ \E id \in {0, 1} : CheckRadio(id)
    \/ \E t \in ClipTexts : EditClip(t[1], t[2])
    \/ _reset_cameras_clip_planes
    \/ setNearClipPlane
    \/ setFarClipPlane
    \/ reset_cameras_complete
    \/ _camera_manip_show_selected
    \/ _camera_manip_hide_selected
    \/ _camera_manip_show_all
    \/ _camera_manip_hide_all
    \/ _reset_ui
    \/ Return

Spec == Init /\ [][Next]_vars

----------------------------------------------------------------------------
(* The two functions called directly:                                      *)
(* set_cameras_clip_plane(list(resolve_cameras(nodes)), near, far)         *)

InitFunctions ==
    \E sc \in Scenes :
        /\ scene = sc
        /\ locked \in LockChoices(sc)
        /\ InitTool(sc)
        /\ nodes \in SeqUpTo(Range(sc.dag), MaxLen)
        /\ node_i = 1
        /\ yielded = <<>>

\* One pass of the for loop of resolve_cameras.
resolve_cameras_next ==
    /\ node_i <= Len(nodes)
    /\ yielded' = yielded \o resolve_cameras_body(nodes[node_i])
    /\ node_i' = node_i + 1
    /\ UNCHANGED <<scene, nodes, locked, toolVars>>

\* The generator is exhausted and the caller hands the list to the setter.
set_cameras_clip_plane(near, far) ==
    /\ node_i > Len(nodes)
    /\ stack = <<>>
    /\ stack' = <<Frame("set_cameras_clip_plane", "setNearClipPlane",
                        yielded, near, far, FALSE, "")>>
    /\ before' = Snapshot
    /\ writes' = <<>>
    /\ UNCHANGED <<selection, nearClip, farClip, locked, manip, mode,
                   clip_values, checkedId, clip_edit_near, clip_edit_far,
                   inViewMessages, resolveVars>>

\* The for loop of set_cameras_clip_plane is over: it returns None.
set_cameras_clip_plane_return ==
    /\ Running
    /\ Top.slot = "set_cameras_clip_plane"
    /\ Top.pc = "setNearClipPlane"
    /\ Top.i > Len(Top.cameras)
    /\ stack' = ReplaceTop([Top EXCEPT !.pc = "returned"])
    /\ UNCHANGED <<selection, nearClip, farClip, locked, manip, mode,
                   clip_values, checkedId, clip_edit_near, clip_edit_far,
                   inViewMessages, before, writes, resolveVars>>

NextFunctions ==
    \/ resolve_cameras_next
    \/ \E t \in ClipTexts : set_cameras_clip_plane(Float(t[1]), Float(t[2]))
    \/ setNearClipPlane
    \/ setFarClipPlane
    \/ set_cameras_clip_plane_return
    \/ Return

SpecFunctions == InitFunctions /\ [][NextFunctions]_vars

----------------------------------------------------------------------------
(* Vocabulary of the properties *)

IsTransform(n) == nodeType(n) = "transform"
IsCamera(n) == nodeType(n) = "camera"

\* The direct camera-type children of a node, in child order.
CameraChildren(n) == SelectSeq(scene.children[n], IsCamera)

\* Number of positions of a sequence that hold x.
Count(s, x) == Cardinality({k \in 1..Len(s) : s[k] = x})

GeneratorExhausted == node_i > Len(nodes)

\* The frame of a direct call of set_cameras_clip_plane that returned.
SetterReturned ==
    /\ Running
    /\ Top.slot = "set_cameras_clip_plane"
    /\ Top.pc = "returned"

----------------------------------------------------------------------------
(* C1 *)

C1_Contribution(n) ==
    IF IsTransform(n) THEN CameraChildren(n)
    ELSE IF IsCamera(n) THEN <<n>>
    ELSE <<>>

RECURSIVE C1_Concatenation(_, _)
C1_Concatenation(ns, k) ==
    IF k = 0 THEN <<>>
    ELSE C1_Concatenation(ns, k - 1) \o C1_Contribution(ns[k])

\* C1: what resolve_cameras has yielded after any number of input nodes is
\* the concatenation, in input order, of the direct camera children (in child
\* order) of each transform and of each camera node itself, nothing else; the
\* whole result is that concatenation over the whole input.
C1_ResolveIsConcatenation ==
    /\ yielded = C1_Concatenation(nodes, node_i - 1)
    /\ resolve_cameras(nodes) = C1_Concatenation(nodes, Len(nodes))

\* A group above the transform, the transform and one of its cameras.
C1_Witness ==
    /\ GeneratorExhausted
    /\ scene = SceneWithCameras
    /\ nodes = <<"t2", "t1", "c2">>
    /\ yielded = <<"c1", "c2", "c2">>

----------------------------------------------------------------------------
(* C2 *)

\* C2: when set_cameras_clip_plane(cameras, near, far) has returned, every
\* camera of the sequence has nearClip = near and farClip = far.
C2_SetterSetsAll ==
    SetterReturned =>
        \A k \in 1..Len(Top.cameras) :
            /\ nearClip[Top.cameras[k]] = Top.near
            /\ farClip[Top.cameras[k]] = Top.far

\* A second call on two cameras that held the values of a first call.
C2_Witness ==
    /\ SetterReturned
    /\ Range(Top.cameras) = {"c1", "c2"}
    /\ before.nearClip["c1"] = 10
    /\ before.farClip["c2"] = 500000
    /\ Top.near = 5
    /\ Top.far = 1000

----------------------------------------------------------------------------
(* C9 *)

\* A node that is neither a transform nor a camera, or a transform none of
\* whose children is a camera.
C9_NoCameraSource(n) ==
    \/ ~IsTransform(n) /\ ~IsCamera(n)
    \/ IsTransform(n) /\ \A j \in 1..Len(scene.children[n]) : ~IsCamera(scene.children[n][j])

\* C9: on an empty input, or an input of only such nodes, resolve_cameras
\* yields nothing.
C9_NoCamerasYieldsEmpty ==
    (\A k \in 1..Len(nodes) : C9_NoCameraSource(nodes[k])) =>
        /\ yielded = <<>>
        /\ resolve_cameras(nodes) = <<>>

\* A mesh and a group whose cameras are grandchildren.
C9_Witness ==
    /\ GeneratorExhausted
    /\ scene = SceneWithCameras
    /\ nodes = <<"m1", "t2">>
    /\ yielded = <<>>

----------------------------------------------------------------------------
(* C10 *)

\* How often the input reaches camera c: as a node of the input, and as a
\* child of a transform of the input.
C10_Occurrences(c) ==
    Count(nodes, c)
    + Cardinality({kj \in (1..Len(nodes)) \X (1..Len(scene.dag)) :
          /\ IsTransform(nodes[kj[1]])
          /\ kj[2] <= Len(scene.children[nodes[kj[1]]])
          /\ scene.children[nodes[kj[1]]][kj[2]] = c})

\* Camera nodes of the input plus camera children of its transforms.
C10_Length ==
    Cardinality({k \in 1..Len(nodes) : IsCamera(nodes[k])})
    + Cardinality({kj \in (1..Len(nodes)) \X (1..Len(scene.dag)) :
          /\ IsTransform(nodes[kj[1]])
          /\ kj[2] <= Len(scene.children[nodes[kj[1]]])
          /\ IsCamera(scene.children[nodes[kj[1]]][kj[2]])})

\* C10: the result holds a camera once per way the input reaches it, so its
\* length is the number of camera nodes of the input plus the camera children
\* of its transforms; the setter then sets each attribute of a camera once
\* per occurrence and leaves it at (near, far).
C10_NoDeduplication ==
    /\ GeneratorExhausted =>
          /\ \A c \in CamerasOf(scene) : Count(yielded, c) = C10_Occurrences(c)
          /\ Len(yielded) = C10_Length
          /\ Len(resolve_cameras(nodes)) = C10_Length
    /\ SetterReturned =>
          \A c \in CamerasOf(scene) :
              /\ Count(writes, <<c, "nearClip", Top.near>>) = C10_Occurrences(c)
              /\ Count(writes, <<c, "farClip", Top.far>>) = C10_Occurrences(c)
              /\ C10_Occurrences(c) > 0 =>
                    nearClip[c] = Top.near /\ farClip[c] = Top.far

\* c1 given directly and through its parent transform.
C10_Witness ==
    /\ SetterReturned
    /\ nodes = <<"c1", "t1">>
    /\ Top.cameras = <<"c1", "c1", "c2">>
    /\ Len(writes) = 6

----------------------------------------------------------------------------
(* Vocabulary of the properties of the tool *)

ResetSlot == "_reset_cameras_clip_planes"
SelectedManipSlots == {"_camera_manip_show_selected", "_camera_manip_hide_selected"}

InReset == Running /\ Top.slot = ResetSlot

\* No node of the selection is a camera or a transform with a camera child.
SelectionResolvesNone ==
    \A k \in 1..Len(selection) : C9_NoCameraSource(selection[k])

ErrorsShown == {k \in 1..Len(inViewMessages) : inViewMessages[k].level = "error"}
InfosShown == {k \in 1..Len(inViewMessages) : inViewMessages[k].level = "info"}

ClipsAsBefore == nearClip = before.nearClip /\ farClip = before.farClip

----------------------------------------------------------------------------
(* C3 *)

\* The slot on top of the stack has called get_selected_cameras.
C3_Called ==
    /\ Running
    /\ \/ Top.slot \in SelectedManipSlots
       \/ Top.slot = ResetSlot /\ mode = "selected"

\* The call raised exc: it escapes a manipulator slot, reset_cameras shows
\* its message.
C3_Raised(exc, message) ==
    IF Top.slot = ResetSlot
    THEN inViewMessages = <<[level |-> "error", text |-> message]>>
    ELSE Top.exc = exc

C3_RaisedNothingSelected ==
    C3_Raised("NothingSelectedError", "Nothing Selected!")

C3_RaisedFailedToResolve ==
    C3_Raised("FailedToResolveFromSelectionError",
              "No cameras could be resolved from selection!")

\* C3: get_selected_cameras raises NothingSelectedError exactly on an empty
\* selection, FailedToResolveFromSelectionError exactly on a non-empty
\* selection without a camera and without a transform with a camera child,
\* and otherwise returns the non-empty resolved list.
C3_SelectedErrors ==
    C3_Called =>
        /\ C3_RaisedNothingSelected <=> selection = <<>>
        /\ C3_RaisedFailedToResolve <=> (selection # <<>> /\ SelectionResolvesNone)
        /\ (selection # <<>> /\ ~SelectionResolvesNone) =>
              /\ Top.cameras # <<>>
              /\ Top.cameras = C1_Concatenation(selection, Len(selection))
              /\ Top.exc \notin {"NothingSelectedError", "FailedToResolveFromSelectionError"}
              /\ ErrorsShown = {}

\* A mesh is selected and a selected-mode manipulator slot runs.
C3_Witness ==
    /\ C3_Called
    /\ Top.slot = "_camera_manip_hide_selected"
    /\ selection = <<"m1">>
    /\ Top.exc = "FailedToResolveFromSelectionError"

----------------------------------------------------------------------------
(* C4 *)

\* C4: reset_cameras in mode "selected" on a selection that is empty or
\* resolves to nothing shows one error message and returns; the setter is
\* not called, every camera keeps its clip values, no success message.
C4_SelectedErrorAborts ==
    (InReset /\ mode = "selected" /\ (selection = <<>> \/ SelectionResolvesNone)) =>
        /\ Top.pc = "returned"
        /\ Len(inViewMessages) = 1
        /\ ErrorsShown = {1}
        /\ InfosShown = {}
        /\ writes = <<>>
        /\ ClipsAsBefore

\* Apply with nothing selected, on cameras an earlier Apply has changed.
C4_Witness ==
    /\ InReset
    /\ mode = "selected"
    /\ selection = <<>>
    /\ Top.pc = "returned"
    /\ inViewMessages = <<[level |-> "error", text |-> "Nothing Selected!"]>>
    /\ "c1" \in DOMAIN nearClip
    /\ nearClip["c1"] = 5

----------------------------------------------------------------------------
(* C5 *)

\* C5: reset_cameras in mode "all" works on every camera of the scene
\* whatever the selection is and shows no error; in a scene without cameras
\* the list is empty, nothing is written and the slot does not end in an
\* exception.
C5_AllModeUnconditional ==
    (InReset /\ mode = "all") =>
        /\ Range(Top.cameras) = CamerasOf(scene)
        /\ Len(Top.cameras) = Cardinality(CamerasOf(scene))
        /\ ErrorsShown = {}
        /\ Top.exc \notin {"NothingSelectedError", "FailedToResolveFromSelectionError"}
        /\ CamerasOf(scene) = {} =>
              /\ Top.cameras = <<>>
              /\ writes = <<>>
              /\ ClipsAsBefore
              /\ Top.pc # "raised"
              /\ Top.pc = "returned" => Len(inViewMessages) = 1 /\ InfosShown = {1}

\* Apply to all, nothing selected, in a scene without cameras.
C5_Witness ==
    /\ InReset
    /\ mode = "all"
    /\ scene = SceneNoCameras
    /\ selection = <<>>
    /\ Top.pc = "returned"
    /\ InfosShown = {1}

----------------------------------------------------------------------------
(* C6 *)

\* A host setter raised inside set_cameras_clip_plane, at position Top.i.
C6_SetterRaised == InReset /\ Top.pc = "raised"

C6_Propagates ==
    /\ Top.exc = "RuntimeError"
    /\ inViewMessages = <<>>

C6_BeforeKeepNew ==
    \A j \in 1..(Top.i - 1) :
        /\ nearClip[Top.cameras[j]] = Top.near
        /\ farClip[Top.cameras[j]] = Top.far

C6_FailedCamera ==
    LET cam == Top.cameras[Top.i]
    IN /\ farClip[cam] = before.farClip[cam]
       /\ Top.at = "setFarClipPlane" => nearClip[cam] = Top.near
       /\ Top.at = "setNearClipPlane" => nearClip[cam] = before.nearClip[cam]

C6_KeepsOld(j) ==
    /\ nearClip[Top.cameras[j]] = before.nearClip[Top.cameras[j]]
    /\ farClip[Top.cameras[j]] = before.farClip[Top.cameras[j]]

\* C6 as claimed: every camera after position k keeps its old values.
C6_AsClaimed ==
    C6_SetterRaised =>
        /\ C6_Propagates
        /\ C6_BeforeKeepNew
        /\ C6_FailedCamera
        /\ \A j \in (Top.i + 1)..Len(Top.cameras) : C6_KeepsOld(j)

\* C6: the host's exception leaves reset_cameras as it is, with no message
\* and no rollback: cameras before position k hold the new values, the k-th
\* holds the new near value only if its far write failed, and a camera that
\* occurs after position k and at no position up to k holds its old values.
C6_PartialFailure ==
    C6_SetterRaised =>
        /\ C6_Propagates
        /\ C6_BeforeKeepNew
        /\ C6_FailedCamera
        /\ \A j \in (Top.i + 1)..Len(Top.cameras) :
              (\A h \in 1..Top.i : Top.cameras[h] # Top.cameras[j]) => C6_KeepsOld(j)

\* The far write of the second of two cameras fails.
C6_Witness ==
    /\ C6_SetterRaised
    /\ Top.cameras = <<"c1", "c2">>
    /\ Top.i = 2
    /\ Top.at = "setFarClipPlane"
    /\ nearClip["c2"] = Top.near
    /\ nearClip["c2"] # before.nearClip["c2"]

----------------------------------------------------------------------------
(* C7 *)

\* C7: a selected-mode manipulator slot run on a selection that is empty or
\* resolves to nothing shows an error message, changes no manipulator and
\* lets no exception escape.
C7_ManipErrorsReported ==
    (/\ Running
     /\ Top.slot \in SelectedManipSlots
     /\ (selection = <<>> \/ SelectionResolvesNone)) =>
        /\ ErrorsShown # {}
        /\ manip = before.manip
        /\ Top.pc # "raised"

----------------------------------------------------------------------------
(* C8 *)

userInputs == <<selection, checkedId, clip_edit_near, clip_edit_far>>

\* C8: at most one slot is in progress, and a slot in progress stays the
\* only one, with the user's inputs as they were, until it has ended.
C8_NoInterleaving ==
    /\ [](Len(stack) <= 1)
    /\ [][(Running /\ ~Ended(Top)) =>
             /\ Len(stack') = 1
             /\ stack'[1].slot = stack[1].slot
             /\ stack'[1].cameras = stack[1].cameras
             /\ userInputs' = userInputs]_vars

\* Between the near and the far write of the second camera.
C8_Witness ==
    /\ InReset
    /\ Top.pc = "setFarClipPlane"
    /\ Top.i = 2

----------------------------------------------------------------------------
(* The manipulator slots on cameras whose manipulators the user has set *)

\* Component flags a camera may show before the tool touches it: none, the
\* center of interest, the pivot together with the clipping planes.
HostManipStates ==
    {<<FALSE, FALSE, FALSE, FALSE, FALSE>>,
     <<FALSE, TRUE, FALSE, FALSE, FALSE>>,
     <<FALSE, FALSE, TRUE, TRUE, FALSE>>}

InitManip ==
    \E sc \in ToolScenes :
        \E m0 \in [CamerasOf(sc) -> HostManipStates] :
            /\ scene = sc
            /\ locked = {}
            /\ selection = <<>>
            /\ nearClip = [c \in CamerasOf(sc) |-> HostCamera.nearClip]
            /\ farClip = [c \in CamerasOf(sc) |-> HostCamera.farClip]
            /\ manip = m0
            /\ mode = "unset"
            /\ clip_values = {}
            /\ checkedId = 0
            /\ clip_edit_near = Str(DEFAULT_CLIP_PLANE_NEAR)
            /\ clip_edit_far = Str(DEFAULT_CLIP_PLANE_FAR)
            /\ stack = <<>>
            /\ inViewMessages = <<>>
            /\ before = [nearClip |-> [c \in CamerasOf(sc) |-> HostCamera.nearClip],
                         farClip |-> [c \in CamerasOf(sc) |-> HostCamera.farClip],
                         manip |-> m0]
            /\ writes = <<>>
            /\ nodes = <<>>
            /\ node_i = 1
            /\ yielded = <<>>

NextManip ==
    \/ \E sel \in Selections : Select(sel)
    \/ _camera_manip_show_selected
    \/ _camera_manip_hide_selected
    \/ _camera_manip_show_all
    \/ _camera_manip_hide_all
    \/ Return

SpecManip == InitManip /\ [][NextManip]_vars

----------------------------------------------------------------------------
(* C11 *)

ManipSlots ==
    {"_camera_manip_show_selected", "_camera_manip_hide_selected",
     "_camera_manip_show_all", "_camera_manip_hide_all"}

\* camera_manip_clipping_toggle(Top.cameras, Top.enable) has returned.
C11_Toggled ==
    /\ Running
    /\ Top.slot \in ManipSlots
    /\ Top.pc = "returned"

\* C11: after the toggle every camera of the sequence shows its clipping
\* planes manipulator exactly when enable is true and none of its four other
\* components; a camera outside the sequence keeps its flags; so a hide
\* after a show leaves the clipping planes manipulator hidden.
C11_ManipToggle ==
    C11_Toggled =>
        \A c \in CamerasOf(scene) :
            IF c \in Range(Top.cameras)
            THEN /\ manip[c][4] = Top.enable
                 /\ \A k \in {1, 2, 3, 5} : manip[c][k] = FALSE
            ELSE manip[c] = before.manip[c]

\* Hide on c1 alone, after a show on all: c1 showed the clipping planes and
\* is hidden, c2 keeps showing them.
C11_Witness ==
    /\ C11_Toggled
    /\ Top.slot = "_camera_manip_hide_selected"
    /\ Top.cameras = <<"c1">>
    /\ before.manip["c1"] = <<FALSE, FALSE, FALSE, TRUE, FALSE>>
    /\ manip["c1"] = <<FALSE, FALSE, FALSE, FALSE, FALSE>>
    /\ manip["c2"] = <<FALSE, FALSE, FALSE, TRUE, FALSE>>

----------------------------------------------------------------------------
(* C12 *)

\* A step of a reset action: the Apply slot is entered, runs or returns.
C12_ResetStep ==
    \/ Running /\ Top.slot = ResetSlot
    \/ stack' # <<>> /\ stack'[Len(stack')].slot = ResetSlot

\* The cameras the action is to work on: in mode "selected" a camera that
\* is selected or is a direct child of a selected transform, in mode "all"
\* every camera.
C12_Resolved(m, c) ==
    \/ m = "all"
    \/ \E k \in 1..Len(selection) :
          \/ selection[k] = c
          \/ /\ IsTransform(selection[k])
             /\ c \in Range(scene.children[selection[k]])

\* C12: no step of a reset action changes a manipulator flag or the
\* selection, and none changes nearClip or farClip of a camera the action
\* did not resolve.
C12_ResetFrame ==
    [][C12_ResetStep =>
          /\ manip' = manip
          /\ selection' = selection
          /\ \A c \in CamerasOf(scene) :
                ~C12_Resolved(mode', c) =>
                    nearClip'[c] = nearClip[c] /\ farClip'[c] = farClip[c]]_vars

\* Apply to the selected c1 has run: c1 is set, c2 keeps other values and
\* c1 keeps the clipping planes manipulator a show had given it.
C12_Witness ==
    /\ InReset
    /\ mode = "selected"
    /\ selection = <<"c1">>
    /\ Top.pc = "returned"
    /\ writes # <<>>
    /\ nearClip["c1"] = Top.near
    /\ nearClip["c2"] # Top.near
    /\ manip["c1"][4] = TRUE

----------------------------------------------------------------------------
(* MayaResetCameraClipPlanes used directly, before any assignment of mode  *)
(* or clip_values: actions = MayaResetCameraClipPlanes();                   *)
(* actions.reset_cameras()                                                  *)

\* The frame reset_cameras leaves when it is called on the object as it is:
\* reading an attribute the object does not have raises AttributeError,
\* self.mode before the try, self.clip_values after it.
reset_cameras_call_frame ==
    IF mode = "unset"
    THEN Frame("reset_cameras", "raised", <<>>, 0, 0, FALSE, "AttributeError")
    ELSE IF action_map_get(mode).raised = "" /\ clip_values = {}
    THEN Frame("reset_cameras", "raised", <<>>, 0, 0, FALSE, "AttributeError")
    ELSE LET cv == IF clip_values = {} THEN ClipPair(0, 0)
                   ELSE CHOOSE v \in clip_values : TRUE
         IN reset_cameras_frame("reset_cameras", mode, cv)

\* MayaResetCameraClipPlanes.reset_cameras, called by a client.
reset_cameras ==
    /\ Enter(reset_cameras_call_frame)
    /\ inViewMessages' = IF mode = "unset" THEN <<>> ELSE reset_cameras_msgs(mode)
    /\ UNCHANGED <<selection, nearClip, farClip, locked, manip, mode,
                   clip_values, checkedId, clip_edit_near, clip_edit_far,
                   resolveVars>>

NextNew ==
    \/ \E sel \in Selections : Select(sel)
    \/ reset_cameras
    \/ Return

SpecNew == Init /\ [][NextNew]_vars

----------------------------------------------------------------------------
(* C13 *)

\* C13: reset_cameras called on a newly constructed object finds
\* mode = "selected" and clip_values = ClipPair(1.0, 50000.0), raises nothing
\* of its own, and on a selection that resolves goes on to set the selected
\* cameras to the default values.
C13_NewObjectDefaults ==
    (Running /\ Top.slot = "reset_cameras") =>
        /\ mode = "selected"
        /\ clip_values = {ClipPair(DEFAULT_CLIP_PLANE_NEAR, DEFAULT_CLIP_PLANE_FAR)}
        /\ Top.exc = ""
        /\ (selection # <<>> /\ ~SelectionResolvesNone) =>
              /\ Top.cameras = C1_Concatenation(selection, Len(selection))
              /\ Top.near = DEFAULT_CLIP_PLANE_NEAR
              /\ Top.far = DEFAULT_CLIP_PLANE_FAR

====
